---------------------------- MODULE Spec2Model ----------------------------
(*
  A model of the CiNii Books client library (package cinii):

    retrieve.go  Get, Parse, the Record accessors (Title, Parents, Volumes,
                 Topics, Authors, Holdings) and NameField.String
    search.go    the two Search variants the file holds (lines 84-101, which
                 sends the caller's parameters as they are, and lines 163-187,
                 which looks the appid up in CINII_APPID), GetAppID

  Strings are TLA+ strings (Len, \o and SubSeq work on them character by
  character), so HasPrefix, HasSuffix and strings.Replace are computed on the
  very texts the code handles.

  Three specifications, one per pipeline:
    Spec        Parse of a response body, then the accessors on the Record
    SpecGet     Get: the request URL, the fetch, the decode
    SpecSearch  Search (both variants) on the caller's url.Values and the
                process environment
*)
EXTENDS Integers, Sequences, FiniteSets, TLC

VARIABLES
    env,      \* the value of the environment variable CINII_APPID ("" = unset)
    q,        \* the caller's url.Values (a Go map: shared with the callee)
    record,   \* the Record the last successful decode produced
    call      \* the last call made: its arguments and what it returned

vars == <<env, q, record, call>>

----------------------------------------------------------------------------
(* Bounds *)

\* The number of XML elements (Descriptions and their children) in a body.
MaxElements == 4

\* Get is fed its own request URL back only while that URL is this short.
MaxURLLen == 64

----------------------------------------------------------------------------
(* package strings *)

HasPrefix(s, prefix) ==
    /\ Len(s) >= Len(prefix)
    /\ SubSeq(s, 1, Len(prefix)) = prefix

HasSuffix(s, suffix) ==
    /\ Len(s) >= Len(suffix)
    /\ SubSeq(s, Len(s) - Len(suffix) + 1, Len(s)) = suffix

\* strings.Index: the position (from 1) of the first occurrence, 0 when none.
Index(s, old) ==
    LET hits == {i \in 1..(Len(s) - Len(old) + 1) :
                    SubSeq(s, i, i + Len(old) - 1) = old}
    IN  IF hits = {} THEN 0
        ELSE CHOOSE i \in hits : \A j \in hits : i <= j

\* strings.Replace(s, old, "", 1): the first occurrence of old, wherever it
\* is, is cut out; s is returned as it is when old does not occur.
RemoveFirst(s, old) ==
    LET i == Index(s, old)
    IN  IF i = 0 THEN s
        ELSE SubSeq(s, 1, i - 1) \o SubSeq(s, i + Len(old), Len(s))

----------------------------------------------------------------------------
(* retrieve.go: the request URL of Get *)

RetrieveEndopoint == "http://ci.nii.ac.jp/ncid"

\* The variant that puts the key in before the suffix is settled.
GetURLKeyBeforeSuffix(url, appid) ==
    LET u1 == IF ~HasPrefix(url, RetrieveEndopoint)
              THEN RetrieveEndopoint \o "/" \o url
              ELSE url
        u2 == IF Len(appid) > 0 THEN u1 \o "?appid=" \o appid ELSE u1
    IN  IF ~HasSuffix(u2, ".rdf") THEN u2 \o ".rdf" ELSE u2

\* Get, lines 249-258: the URL handed to http.Get.
GetURL(url, appid) ==
    LET u1 == IF ~HasPrefix(url, RetrieveEndopoint)
              THEN RetrieveEndopoint \o "/" \o url
              ELSE url
        u2 == IF ~HasSuffix(u1, ".rdf") THEN u1 \o ".rdf" ELSE u1
    IN  IF Len(appid) > 0 THEN u2 \o "?appid=" \o appid ELSE u2


----------------------------------------------------------------------------
(* retrieve.go: the decoded structures *)

\* TextField, lines 94-97.
TextField(lang, text) == [Lang |-> lang, Text |-> text]

\* ResourceField, lines 61-64: the rdf:resource and dc:title attributes.
ResourceField(resource, title) == [Resource |-> resource, Title |-> title]

\* NameField, lines 67-71.
NameField(about, see) ==
    [About |-> about, Name |-> <<>>, SeeAlso |-> [Resource |-> see]]

\* Description, lines 21-43, as decoding starts to fill it: the fields an
\* accessor reads. (The scalar fields and lists no accessor reads, Creator,
\* Publisher, Date and the rest, take no part in any operation below.)
EmptyDescription ==
    [Title |-> <<>>, Topics |-> <<>>, IsPartOf |-> <<>>, HasPart |-> <<>>,
     Authors |-> <<>>, Holdings |-> <<>>]

\* A *Record: nil, or a Record with its Descriptions (lines 15-18).
NilRecord == [nil |-> TRUE, Descriptions |-> <<>>]

----------------------------------------------------------------------------
(* The response bodies: an rdf:RDF document is the sequence of its elements *)

Element(tag, id, text, lang, see) ==
    [tag |-> tag, id |-> id, text |-> text, lang |-> lang, see |-> see]

\* dc:title entries: one plain, one with xml:lang (the reading).
TitleElements ==
    { Element("title", "", "Go Programming", "", ""),
      Element("title", "", "Go puroguramingu", "ja-Kana", "") }

\* rdf:resource values of dcterms:isPartOf.
PartOfResources ==
    { "http://ci.nii.ac.jp/ncid/BA1111#entity",
      "http://ci.nii.ac.jp/ncid/BA2222",
      "BA3333",
      "urn:x#entity/http://ci.nii.ac.jp/ncid/BA4444" }

\* rdf:about values of foaf:Person and foaf:Organization.
AuthorAbouts ==
    { "http://ci.nii.ac.jp/author/DA001#entity",
      "http://ci.nii.ac.jp/author/DA002#entity" }

LibraryAbouts ==
    { "http://ci.nii.ac.jp/library/FA001",
      "http://ci.nii.ac.jp/library/FA002#entity" }

Elements ==
    { Element("Description", "", "", "", "") }
    \cup TitleElements
    \cup { Element("isPartOf", r, "Parent Series", "", "") : r \in PartOfResources }
    \cup { Element("hasPart", "urn:isbn:9784000000001", "v. 1", "", "") }
    \cup { Element("topic", "", "Programming", "", "") }
    \cup { Element("maker", a, "", "", "") : a \in AuthorAbouts }
    \cup { Element("maker.name", "", "Pike, Rob", "", ""),
           Element("maker.name", "", "Paiku, Robu", "ja-Kana", "") }
    \cup { Element("owner", a, "", "", "http://opac.example/BA1") :
              a \in LibraryAbouts }
    \cup { Element("owner.name", "", "Central Library", "", "") }

\* What xml.Unmarshal rejects: a truncated document, another root element.
MalformedBody == [wellFormed |-> FALSE, elements |-> <<>>]

Document(elements) == [wellFormed |-> TRUE, elements |-> elements]

----------------------------------------------------------------------------
(* retrieve.go: Parse (xml.Unmarshal into the tagged structs) *)

\* One child element of a Description, stored by the field whose tag names
\* it (lines 25-42); foaf:name goes to the Person or Organization it is in.
AddChild(d, e) ==
    CASE e.tag = "title" ->
            [d EXCEPT !.Title = Append(@, TextField(e.lang, e.text))]
      [] e.tag = "topic" ->
            [d EXCEPT !.Topics = Append(@, ResourceField(e.id, e.text))]
      [] e.tag = "isPartOf" ->
            [d EXCEPT !.IsPartOf = Append(@, ResourceField(e.id, e.text))]
      [] e.tag = "hasPart" ->
            [d EXCEPT !.HasPart = Append(@, ResourceField(e.id, e.text))]
      [] e.tag = "maker" ->
            [d EXCEPT !.Authors = Append(@, [Author |-> NameField(e.id, e.see)])]
      [] e.tag = "owner" ->
            [d EXCEPT !.Holdings = Append(@, [Holding |-> NameField(e.id, e.see)])]
      [] e.tag = "maker.name" ->
            IF Len(d.Authors) = 0 THEN d
            ELSE [d EXCEPT !.Authors[Len(d.Authors)].Author.Name =
                        Append(@, TextField(e.lang, e.text))]
      [] e.tag = "owner.name" ->
            IF Len(d.Holdings) = 0 THEN d
            ELSE [d EXCEPT !.Holdings[Len(d.Holdings)].Holding.Name =
                        Append(@, TextField(e.lang, e.text))]
      [] OTHER -> d

\* An rdf:Description opens a new entry of Descriptions (line 17); any other
\* element belongs to the Description it is in, and is skipped outside one.
DecodeElement(ds, e) ==
    IF e.tag = "Description" THEN Append(ds, EmptyDescription)
    ELSE IF Len(ds) = 0 THEN ds
    ELSE [ds EXCEPT ![Len(ds)] = AddChild(@, e)]

RECURSIVE Unmarshal(_, _, _)
Unmarshal(elements, i, ds) ==
    IF i > Len(elements) THEN ds
    ELSE Unmarshal(elements, i + 1, DecodeElement(ds, elements[i]))

\* Parse, lines 280-289: (record, nil), or (nil, err) when decoding fails.
Parse(body) ==
    IF ~body.wellFormed
    THEN [record |-> NilRecord, err |-> "ParseError"]
    ELSE [record |-> [nil |-> FALSE,
                      Descriptions |-> Unmarshal(body.elements, 1, <<>>)],
          err |-> ""]

----------------------------------------------------------------------------
(* retrieve.go: the accessors. Each returns [ret, ok, panic]: the rows, the
   ok flag (TRUE for Title, which has none) and whether the call ended in a
   run-time panic instead of returning. *)

Returned(ret, ok) == [ret |-> ret, ok |-> ok, panic |-> FALSE]

\* return nil, false
Absent == Returned(<<>>, FALSE)

\* An index out of range: the call does not return.
Panicked == [ret |-> <<>>, ok |-> FALSE, panic |-> TRUE]

\* Lines 124-130: the loop over the title entries, ret being the 2 strings.
RECURSIVE TitleLoop(_, _, _)
TitleLoop(title, i, ret) ==
    IF i > Len(title) THEN ret
    ELSE TitleLoop(title, i + 1,
                   IF Len(title[i].Lang) > 0
                   THEN [ret EXCEPT ![2] = title[i].Text]
                   ELSE [ret EXCEPT ![1] = title[i].Text])

\* A Title that takes the entries by position, as TextFields.String does.
TitleByPosition(r) ==
    IF Len(r.Descriptions) = 0 THEN Panicked
    ELSE LET title == r.Descriptions[1].Title
         IN  Returned(<<IF Len(title) > 0 THEN title[1].Text ELSE "",
                        IF Len(title) > 1 THEN title[2].Text ELSE "">>, TRUE)

\* Title, lines 122-132. r.Descriptions[0] panics on an empty list.
Title(r) ==
    IF Len(r.Descriptions) = 0 THEN Panicked
    ELSE Returned(TitleLoop(r.Descriptions[1].Title, 1, <<"", "">>), TRUE)

\* Lines 142-145: one row of Parents.
ParentRow(field) ==
    <<field.Title,
      RemoveFirst(RemoveFirst(field.Resource, "http://ci.nii.ac.jp/ncid/"),
                  "#entity")>>

\* A Parents that leaves the #entity marker in, as Holdings does.
ParentsKeepMarker(r) ==
    IF Len(r.Descriptions) = 0 THEN Panicked
    ELSE LET fields == r.Descriptions[1].IsPartOf
         IN  IF Len(fields) = 0 THEN Absent
             ELSE Returned([i \in 1..Len(fields) |->
                              <<fields[i].Title,
                                RemoveFirst(fields[i].Resource,
                                            "http://ci.nii.ac.jp/ncid/")>>],
                           TRUE)

\* Parents, lines 135-148.
Parents(r) ==
    IF Len(r.Descriptions) = 0 THEN Panicked
    ELSE LET fields == r.Descriptions[1].IsPartOf
         IN  IF Len(fields) = 0 THEN Absent
             ELSE Returned([i \in 1..Len(fields) |-> ParentRow(fields[i])],
                           TRUE)

\* Volumes, lines 151-163.
Volumes(r) ==
    IF Len(r.Descriptions) = 0 THEN Panicked
    ELSE LET fields == r.Descriptions[1].HasPart
         IN  IF Len(fields) = 0 THEN Absent
             ELSE Returned([i \in 1..Len(fields) |->
                              <<fields[i].Title,
                                RemoveFirst(fields[i].Resource, "urn:isbn:")>>],
                           TRUE)

\* Topics, lines 166-176.
Topics(r) ==
    IF Len(r.Descriptions) = 0 THEN Panicked
    ELSE LET fields == r.Descriptions[1].Topics
         IN  IF Len(fields) = 0 THEN Absent
             ELSE Returned([i \in 1..Len(fields) |-> fields[i].Title], TRUE)

\* Lines 185-192: the loop over every Description. There is no break: each
\* Description with authors overwrites fields.
RECURSIVE AuthorFields(_, _, _)
AuthorFields(ds, i, fields) ==
    IF i > Len(ds) THEN fields
    ELSE IF Len(ds[i].Authors) = 0
         THEN AuthorFields(ds, i + 1, fields)
         ELSE AuthorFields(ds, i + 1, ds[i].Authors)

\* Lines 204-211: the loop over an author's names, nm being <<author, yomi>>.
RECURSIVE NameLoop(_, _, _)
NameLoop(name, i, nm) ==
    IF i > Len(name) THEN nm
    ELSE NameLoop(name, i + 1,
                  IF Len(name[i].Lang) > 0
                  THEN [nm EXCEPT ![2] = name[i].Text]
                  ELSE [nm EXCEPT ![1] = name[i].Text])

\* Lines 199-213: one row of Authors.
AuthorRow(field) ==
    LET id == RemoveFirst(RemoveFirst(field.Author.About,
                                      "http://ci.nii.ac.jp/author/"),
                          "#entity")
        nm == NameLoop(field.Author.Name, 1, <<"", "">>)
    IN  <<nm[1], nm[2], id>>

AuthorRows(fields) == [i \in 1..Len(fields) |-> AuthorRow(fields[i])]

\* Authors, lines 179-215.
Authors(r) ==
    IF Len(r.Descriptions) = 1 THEN Absent
    ELSE LET fields == AuthorFields(r.Descriptions, 1, <<>>)
         IN  IF Len(fields) = 0 THEN Absent
             ELSE Returned(AuthorRows(fields), TRUE)

\* Lines 224-231: as in Authors, without a break.
RECURSIVE HoldingFields(_, _, _)
HoldingFields(ds, i, fields) ==
    IF i > Len(ds) THEN fields
    ELSE IF Len(ds[i].Holdings) = 0
         THEN HoldingFields(ds, i + 1, fields)
         ELSE HoldingFields(ds, i + 1, ds[i].Holdings)

\* Lines 239-242: one row of Holdings; only the library prefix is cut.
\* holding.Name[0] is read whatever the length of Name.
HoldingRow(field) ==
    LET holding == field.Holding
    IN  <<holding.Name[1].Text,
          RemoveFirst(holding.About, "http://ci.nii.ac.jp/library/"),
          holding.SeeAlso.Resource>>

\* Holdings, lines 218-245. The row loop panics at the first holding whose
\* Name is empty.
Holdings(r) ==
    IF Len(r.Descriptions) = 1 THEN Absent
    ELSE LET fields == HoldingFields(r.Descriptions, 1, <<>>)
         IN  IF Len(fields) = 0 THEN Absent
             ELSE IF \E i \in 1..Len(fields) : Len(fields[i].Holding.Name) = 0
                  THEN Panicked
                  ELSE Returned([i \in 1..Len(fields) |-> HoldingRow(fields[i])],
                                TRUE)

\* NameField.String, lines 79-83: the identifier it puts in brackets.
NameFieldID(n) ==
    RemoveFirst(RemoveFirst(RemoveFirst(n.About, "http://ci.nii.ac.jp/author/"),
                            "http://ci.nii.ac.jp/library/"),
                "#entity")

\* NameField.String, lines 74-91: [ret, panic]; n.Name[0] panics on no name.
NameFieldString(n) ==
    IF Len(n.Name) = 0 THEN [ret |-> "", panic |-> TRUE]
    ELSE LET s1 == n.Name[1].Text
             s2 == IF Len(n.Name) > 1
                   THEN s1 \o " (" \o n.Name[2].Text \o ")"
                   ELSE s1
         IN  [ret |-> IF Len(n.About) > 0
                      THEN s2 \o " [" \o NameFieldID(n) \o "]"
                      ELSE s2,
              panic |-> FALSE]

----------------------------------------------------------------------------
(* The caller's side: url.Values and the environment *)

\* url.Values is map[string][]string; a nil map reads as empty and panics
\* when written.
NilValues == [nil |-> TRUE, m |-> <<>>]

MakeValues(m) == [nil |-> FALSE, m |-> m]

NoCall == [op |-> "none", ret |-> <<>>, ok |-> FALSE, panic |-> FALSE]

----------------------------------------------------------------------------
(* Spec: Parse of one response body, then the accessors on its Record *)

Called(op, res) ==
    [op |-> op, ret |-> res.ret, ok |-> res.ok, panic |-> res.panic]

Init ==
    /\ env = ""
    /\ q = NilValues
    /\ record = NilRecord
    /\ call = NoCall

\* What a call of Parse leaves.
Parsed(p) ==
    /\ record' = p.record
    /\ call' = [op |-> "Parse", ret |-> <<>>, ok |-> p.err = "",
                panic |-> FALSE]
    /\ UNCHANGED <<env, q>>

\* Parse(body), the body being a malformed document or any document of at
\* most MaxElements elements.
CallParse ==
    /\ call.op = "none"
    /\ \/ Parsed(Parse(MalformedBody))
       \/ \E n \in 0..MaxElements :
             \E elements \in [1..n -> Elements] :
                 Parsed(Parse(Document(elements)))

\* The accessors are methods of the *Record a successful Parse returned; a
\* panic ends the program.
CanCall == ~record.nil /\ ~call.panic

CallTitle ==
    /\ CanCall
    /\ call' = Called("Title", Title(record))
    /\ UNCHANGED <<env, q, record>>

CallParents ==
    /\ CanCall
    /\ call' = Called("Parents", Parents(record))
    /\ UNCHANGED <<env, q, record>>

CallVolumes ==
    /\ CanCall
    /\ call' = Called("Volumes", Volumes(record))
    /\ UNCHANGED <<env, q, record>>

CallTopics ==
    /\ CanCall
    /\ call' = Called("Topics", Topics(record))
    /\ UNCHANGED <<env, q, record>>

CallAuthors ==
    /\ CanCall
    /\ call' = Called("Authors", Authors(record))
    /\ UNCHANGED <<env, q, record>>

CallHoldings ==
    /\ CanCall
    /\ call' = Called("Holdings", Holdings(record))
    /\ UNCHANGED <<env, q, record>>

\* The Persons and Organizations of the Record.
NameFields ==
    UNION { { record.Descriptions[d].Authors[i].Author :
                i \in 1..Len(record.Descriptions[d].Authors) }
            \cup { record.Descriptions[d].Holdings[i].Holding :
                     i \in 1..Len(record.Descriptions[d].Holdings) } :
            d \in 1..Len(record.Descriptions) }

\* String() on one of them (fmt prints a NameField by it).
CallString ==
    /\ CanCall
    /\ \E n \in NameFields :
          LET res == NameFieldString(n)
          IN  call' = [op |-> "String", ret |-> <<res.ret>>,
                       ok |-> ~res.panic, panic |-> res.panic]
    /\ UNCHANGED <<env, q, record>>

Next ==
    \/ CallParse
    \/ CallTitle
    \/ CallParents
    \/ CallVolumes
    \/ CallTopics
    \/ CallAuthors
    \/ CallHoldings
    \/ CallString

Spec == Init /\ [][Next]_vars

----------------------------------------------------------------------------
(* SpecGet: Get(url, appid) *)

\* The identifiers a caller passes: a bare NCID, the README's; one with the
\* suffix; an Entry.ID of a search result (a full URL); a full request URL;
\* an https URL; the empty string.
Identifiers ==
    { "BB19132110",
      "BB19132110.rdf",
      "http://ci.nii.ac.jp/ncid/BB19132110",
      "http://ci.nii.ac.jp/ncid/BB19132110.rdf",
      "https://ci.nii.ac.jp/ncid/BB19132110",
      "" }

AppIDs == { "", "K1", "key.rdf" }

\* What the fetch yields: http.Get fails, ioutil.ReadAll fails, or a body.
GetBodies ==
    { MalformedBody,
      Document(<<>>),
      Document(<<Element("Description", "", "", "", "")>>),
      Document(<<Element("Description", "", "", "", ""),
                 Element("title", "", "Go Programming", "", "")>>) }

Fetches ==
    { [err |-> "http.Get", body |-> MalformedBody],
      [err |-> "ReadAll", body |-> MalformedBody] }
    \cup { [err |-> "", body |-> b] : b \in GetBodies }

\* Get, lines 248-277, whole: the URL, the fetch, the decode.
Get(url, appid) ==
    \E f \in Fetches :
        LET requested == GetURL(url, appid)
            p == IF f.err = "" THEN Parse(f.body)
                 ELSE [record |-> NilRecord, err |-> f.err]
        IN  /\ record' = p.record
            /\ call' = [op |-> "Get", arg |-> url, appid |-> appid,
                        url |-> requested, err |-> p.err,
                        q |-> q, env |-> env]
            /\ UNCHANGED <<env, q>>

CallGet ==
    \E url \in Identifiers, appid \in AppIDs : Get(url, appid)

\* The caller passes the URL Get requested back to Get, with the same key.
CallGetAgain ==
    /\ call.op = "Get"
    /\ Len(call.url) <= MaxURLLen
    /\ Get(call.url, call.appid)

NextGet ==
    \/ CallGet
    \/ CallGetAgain

SpecGet == Init /\ [][NextGet]_vars

----------------------------------------------------------------------------
(* net/url: the url.Values methods Search calls *)

\* Values.Get: the first value of the key, "" when there is none (a nil map
\* reads as an empty one).
ValuesGet(v, key) ==
    IF v.nil \/ key \notin DOMAIN v.m THEN ""
    ELSE IF Len(v.m[key]) = 0 THEN ""
    ELSE v.m[key][1]

\* Values.Set, v[key] = []string{value}: written into the caller's map.
\* (On a nil map the assignment panics; Search tells that case apart.)
ValuesSet(v, key, value) ==
    MakeValues([k \in DOMAIN v.m \cup {key} |->
                   IF k = key THEN <<value>> ELSE v.m[k]])

\* url.QueryEscape on one character: letters, digits and - _ . ~ stay, a
\* space becomes +, anything else its %XX (the characters the parameter
\* values below hold).
Unreserved ==
    "ABCDEFGHIJKLMNOPQRSTUVWXYZabcdefghijklmnopqrstuvwxyz0123456789-_.~"

EscapeChar(c) ==
    IF Index(Unreserved, c) > 0 THEN c
    ELSE CASE c = " " -> "+"
           [] c = "&" -> "%26"
           [] c = "=" -> "%3D"
           [] c = "/" -> "%2F"
           [] c = ":" -> "%3A"
           [] c = "?" -> "%3F"
           [] c = "#" -> "%23"

RECURSIVE QueryEscape(_)
QueryEscape(s) ==
    IF Len(s) = 0 THEN ""
    ELSE EscapeChar(SubSeq(s, 1, 1)) \o QueryEscape(SubSeq(s, 2, Len(s)))

\* The parameter names a caller sets, in the order sort.Strings gives them.
SortedKeys == <<"appid", "q">>

\* Values.Encode: key=value pairs, keys sorted, joined by &.
RECURSIVE EncodeValuesOf(_, _, _, _)
EncodeValuesOf(key, vs, i, buf) ==
    IF i > Len(vs) THEN buf
    ELSE EncodeValuesOf(key, vs, i + 1,
            (IF Len(buf) > 0 THEN buf \o "&" ELSE buf)
            \o QueryEscape(key) \o "=" \o QueryEscape(vs[i]))

RECURSIVE EncodeFrom(_, _, _)
EncodeFrom(v, k, buf) ==
    IF k > Len(SortedKeys) THEN buf
    ELSE IF SortedKeys[k] \in DOMAIN v.m
         THEN EncodeFrom(v, k + 1,
                         EncodeValuesOf(SortedKeys[k], v.m[SortedKeys[k]], 1, buf))
         ELSE EncodeFrom(v, k + 1, buf)

Encode(v) == IF v.nil THEN "" ELSE EncodeFrom(v, 1, "")

----------------------------------------------------------------------------
(* search.go *)

OpenSaerchEndpoint == "http://ci.nii.ac.jp/books/opensearch/search"

\* GetAppID, lines 202-209: [appid, err].
GetAppID(environment) ==
    IF Len(environment) = 0
    THEN [appid |-> "", err |-> "ConfigError"]
    ELSE [appid |-> environment, err |-> ""]

\* A *AtomFeed: nil, or the feed with the IDs of its entries.
NilFeed == [nil |-> TRUE, Entries |-> <<>>]

\* A response body: an Atom feed is its atom:updated text ("" when the
\* element is missing) and its entries.
AtomBody(updated, entries) ==
    [wellFormed |-> TRUE, updated |-> updated, entries |-> entries]

MalformedAtom == [wellFormed |-> FALSE, updated |-> "", entries |-> <<>>]

AtomBodies ==
    { MalformedAtom,
      AtomBody("2017-04-01T10:00:00+0900", <<>>),
      AtomBody("2017-04-01T10:00:00+09:00",
               <<"http://ci.nii.ac.jp/ncid/BB19132110">>) }

\* customTime.UnmarshalXML, lines 70-81: time.Parse with the layout
\* 2006-01-02T15:04:05-0700, whose zone is a sign and four digits.
CustomTimeParses(v) ==
    /\ Len(v) = 24
    /\ SubSeq(v, 20, 20) \in {"+", "-"}

\* ParseAtomFeed, lines 104-113: AtomFeed.Updated is a customTime.
ParseAtomFeedTimed(body) ==
    IF ~body.wellFormed \/ (body.updated # "" /\ ~CustomTimeParses(body.updated))
    THEN [feed |-> NilFeed, err |-> "ParseError"]
    ELSE [feed |-> [nil |-> FALSE, Entries |-> body.entries], err |-> ""]

\* ParseAtomFeed, lines 190-199: the AtomFeed has no Updated field.
ParseAtomFeed(body) ==
    IF ~body.wellFormed
    THEN [feed |-> NilFeed, err |-> "ParseError"]
    ELSE [feed |-> [nil |-> FALSE, Entries |-> body.entries], err |-> ""]

SearchFetches ==
    { [err |-> "http.Get", body |-> MalformedAtom],
      [err |-> "ReadAll", body |-> MalformedAtom] }
    \cup { [err |-> "", body |-> b] : b \in AtomBodies }

\* What a Search call leaves in call: the mapping and the environment as
\* they were when it was called, whether os.Getenv was called, whether an
\* HTTP request was issued and for which URL, and what was returned.
SearchCall(op, envRead, sent, url, feed, err, panic) ==
    [op |-> op, q |-> q, env |-> env, envRead |-> envRead, sent |-> sent,
     url |-> url, feed |-> feed, err |-> err, panic |-> panic]

\* A panic ends the program: no call follows one.
Running == ~call.panic

\* Search, lines 84-101: the parameters are sent as the caller gave them.
SearchDirect ==
    /\ Running
    /\ \E f \in SearchFetches :
          LET url == OpenSaerchEndpoint \o "?" \o Encode(q)
              p == IF f.err = "" THEN ParseAtomFeedTimed(f.body)
                   ELSE [feed |-> NilFeed, err |-> f.err]
          IN  /\ call' = SearchCall("SearchDirect", FALSE, TRUE, url,
                                    p.feed, p.err, FALSE)
              /\ UNCHANGED <<env, q, record>>

\* Search, lines 163-187, when q has no appid and GetAppID fails.
SearchNoKey ==
    /\ Running
    /\ Len(ValuesGet(q, "appid")) = 0
    /\ GetAppID(env).err # ""
    /\ call' = SearchCall("Search", TRUE, FALSE, "", NilFeed,
                          GetAppID(env).err, FALSE)
    /\ UNCHANGED <<env, q, record>>

\* Search, lines 163-187, when q is a nil map with no appid to read and
\* GetAppID succeeds: q.Set panics.
SearchNilMap ==
    /\ Running
    /\ Len(ValuesGet(q, "appid")) = 0
    /\ GetAppID(env).err = ""
    /\ q.nil
    /\ call' = SearchCall("Search", TRUE, FALSE, "", NilFeed, "", TRUE)
    /\ UNCHANGED <<env, q, record>>

\* Search, lines 163-187, when a request is issued: with the caller's appid,
\* or with the one of the environment, which q.Set writes into q.
SearchRequest ==
    LET lookup == Len(ValuesGet(q, "appid")) = 0
        sentq  == IF lookup THEN ValuesSet(q, "appid", GetAppID(env).appid)
                  ELSE q
    IN  /\ Running
        /\ lookup => (GetAppID(env).err = "" /\ ~q.nil)
        /\ \E f \in SearchFetches :
              LET url == OpenSaerchEndpoint \o "?" \o Encode(sentq)
                  p == IF f.err = "" THEN ParseAtomFeed(f.body)
                       ELSE [feed |-> NilFeed, err |-> f.err]
              IN  /\ call' = SearchCall("Search", lookup, TRUE, url,
                                        p.feed, p.err, FALSE)
                  /\ q' = sentq
                  /\ UNCHANGED <<env, record>>

\* Search, lines 163-187, whole.
Search ==
    \/ SearchNoKey
    \/ SearchNilMap
    \/ SearchRequest

\* The mappings a caller builds: nil, or q and appid each set or not.
QueryValues == { <<"Go">>, <<"Go lang">> }

KeyValues == { <<"">>, <<"K2">> }

CallerValues ==
    { NilValues }
    \cup { MakeValues(m) :
              m \in UNION { { f \in [ks -> QueryValues \cup KeyValues] :
                                \A k \in ks :
                                    f[k] \in (IF k = "q" THEN QueryValues
                                              ELSE KeyValues) } :
                            ks \in SUBSET {"appid", "q"} } }

InitSearch ==
    /\ env \in {"", "K1"}
    /\ q \in CallerValues
    /\ record = NilRecord
    /\ call = NoCall

NextSearch ==
    \/ Search
    \/ SearchDirect

SpecSearch == InitSearch /\ [][NextSearch]_vars

----------------------------------------------------------------------------
(* Properties of Get's request URL, under SpecGet *)

\* C1: normalising the URL Get requested again, with the same key, gives
\* that URL back: no second .rdf, no second appid parameter.
GetURLIdempotent ==
    call.op = "Get" => GetURL(call.url, call.appid) = call.url

\* No endpoint prefix and no .rdf suffix.
BareID(id) ==
    /\ ~HasPrefix(id, RetrieveEndopoint)
    /\ ~HasSuffix(id, ".rdf")

\* C2: for a bare identifier Get requests <endpoint>/<id>.rdf, followed by
\* ?appid=<key> when the key is not empty; the key ends the URL.
GetBareIDURL ==
    (call.op = "Get" /\ BareID(call.arg)) =>
        /\ HasPrefix(call.url, "http://ci.nii.ac.jp/ncid/" \o call.arg \o ".rdf")
        /\ IF call.appid = ""
           THEN call.url = "http://ci.nii.ac.jp/ncid/" \o call.arg \o ".rdf"
           ELSE /\ call.url = "http://ci.nii.ac.jp/ncid/" \o call.arg
                                 \o ".rdf?appid=" \o call.appid
                /\ HasSuffix(call.url, "?appid=" \o call.appid)

\* The README's call: a bare NCID with a key.
GetBareIDWitness ==
    /\ call.op = "Get"
    /\ call.arg = "BB19132110"
    /\ call.appid = "K1"
    /\ call.url = "http://ci.nii.ac.jp/ncid/BB19132110.rdf?appid=K1"

----------------------------------------------------------------------------
(* Properties of the accessors, under Spec *)

Accessors == {"Title", "Parents", "Volumes", "Topics", "Authors", "Holdings"}

\* The absent sentinel: nil, false, returned normally.
IsAbsent(c) == ~c.panic /\ ~c.ok /\ c.ret = <<>>

HasAuthors(ds) == \E i \in 1..Len(ds) : Len(ds[i].Authors) > 0

HasHoldings(ds) == \E i \in 1..Len(ds) : Len(ds[i].Holdings) > 0

\* The first Description, in document order, that carries authors.
FirstWithAuthors(ds) ==
    CHOOSE i \in 1..Len(ds) :
        /\ Len(ds[i].Authors) > 0
        /\ \A j \in 1..(i - 1) : Len(ds[j].Authors) = 0

\* C3: with two or more Descriptions, the rows of Authors are those of the
\* first Description that carries authors, one per author, in order.
AuthorsFromFirstBlock ==
    LET ds == record.Descriptions
    IN  (call.op = "Authors" /\ Len(ds) >= 2 /\ HasAuthors(ds)) =>
            /\ call.ok
            /\ call.ret = AuthorRows(ds[FirstWithAuthors(ds)].Authors)

\* C4: no accessor call on a Record that Parse returned ends in a panic.
AccessorsNeverPanic ==
    call.op \in Accessors => ~call.panic

\* C5: Authors (Holdings) is absent exactly when the Record has one
\* Description or none carries authors (holdings); otherwise it returns
\* ok = true and at least one row.
AbsentExactlyWhenNoBlock ==
    LET ds == record.Descriptions
    IN  /\ call.op = "Authors" =>
              IF Len(ds) = 1 \/ ~HasAuthors(ds)
              THEN IsAbsent(call)
              ELSE ~call.panic /\ call.ok /\ Len(call.ret) >= 1
        /\ call.op = "Holdings" =>
              IF Len(ds) = 1 \/ ~HasHoldings(ds)
              THEN IsAbsent(call)
              ELSE ~call.panic /\ call.ok /\ Len(call.ret) >= 1

\* One plain entry and at most one entry with a lang attribute.
OnePlainOptionalReading(title) ==
    /\ Len(title) \in {1, 2}
    /\ Cardinality({i \in 1..Len(title) : title[i].Lang = ""}) = 1

\* C6: for such a title, Title returns two strings, the text of the plain
\* entry and then the text of the lang-tagged one ("" when there is none),
\* whichever comes first in the document.
TitleIsPlainThenReading ==
    LET ds == record.Descriptions
    IN  (call.op = "Title" /\ Len(ds) >= 1
            /\ OnePlainOptionalReading(ds[1].Title)) =>
            LET title == ds[1].Title
                plain == CHOOSE i \in 1..Len(title) : title[i].Lang = ""
            IN  /\ ~call.panic
                /\ Len(call.ret) = 2
                /\ call.ret[1] = title[plain].Text
                /\ call.ret[2] = IF Len(title) = 2
                                 THEN title[3 - plain].Text
                                 ELSE ""

\* The reading comes first in the document, the plain title second.
TitleReadingFirstWitness ==
    /\ call.op = "Title"
    /\ Len(record.Descriptions) >= 1
    /\ Len(record.Descriptions[1].Title) = 2
    /\ record.Descriptions[1].Title[1].Lang = "ja-Kana"
    /\ record.Descriptions[1].Title[2].Lang = ""
    /\ call.ret = <<"Go Programming", "Go puroguramingu">>

TrimPrefix(s, prefix) ==
    IF HasPrefix(s, prefix) THEN SubSeq(s, Len(prefix) + 1, Len(s)) ELSE s

TrimSuffix(s, suffix) ==
    IF HasSuffix(s, suffix) THEN SubSeq(s, 1, Len(s) - Len(suffix)) ELSE s

\* C8, as stated: row i of Parents is the title of reference i and its
\* resource URI less the prefix http://ci.nii.ac.jp/ncid/ and the suffix
\* #entity; no reference, the absent sentinel.
ParentsTrimPrefixAndSuffix ==
    LET ds == record.Descriptions
    IN  (call.op = "Parents" /\ Len(ds) >= 1) =>
            LET fields == ds[1].IsPartOf
            IN  IF Len(fields) = 0 THEN IsAbsent(call)
                ELSE /\ call.ok
                     /\ Len(call.ret) = Len(fields)
                     /\ \A i \in 1..Len(fields) :
                           call.ret[i] =
                             <<fields[i].Title,
                               TrimSuffix(TrimPrefix(fields[i].Resource,
                                              "http://ci.nii.ac.jp/ncid/"),
                                          "#entity")>>

\* C8, amended: row i of Parents is the title of reference i and its
\* resource URI less the first occurrence of http://ci.nii.ac.jp/ncid/ and
\* then the first occurrence of #entity, wherever in the URI they are (so
\* http://ci.nii.ac.jp/ncid/BA1111#entity gives BA1111); n rows in source
\* order, ok = true; no reference, the absent sentinel.
ParentsRemoveFirstOccurrences ==
    LET ds == record.Descriptions
    IN  (call.op = "Parents" /\ Len(ds) >= 1) =>
            LET fields == ds[1].IsPartOf
            IN  IF Len(fields) = 0 THEN IsAbsent(call)
                ELSE /\ call.ok
                     /\ ~call.panic
                     /\ Len(call.ret) = Len(fields)
                     /\ \A i \in 1..Len(fields) :
                           /\ call.ret[i][1] = fields[i].Title
                           /\ call.ret[i][2] =
                                RemoveFirst(RemoveFirst(fields[i].Resource,
                                                "http://ci.nii.ac.jp/ncid/"),
                                            "#entity")
                           /\ fields[i].Resource =
                                "http://ci.nii.ac.jp/ncid/BA1111#entity"
                              => call.ret[i] = <<"Parent Series", "BA1111">>

\* Two references: the spec's fixture, then one with the marker and the
\* endpoint inside the URI.
ParentsTwoRowsWitness ==
    /\ call.op = "Parents"
    /\ call.ok
    /\ call.ret = << <<"Parent Series", "BA1111">>,
                     <<"Parent Series", "urn:x/BA4444">> >>

\* C10: each row of Holdings is the library name, the about-identifier less
\* the prefix http://ci.nii.ac.jp/library/ and the #entity marker (the
\* identifier NameField.String puts in brackets), and the seeAlso resource.
HoldingsRowIsShortID ==
    LET fields == HoldingFields(record.Descriptions, 1, <<>>)
    IN  (call.op = "Holdings" /\ call.ok) =>
            /\ Len(call.ret) = Len(fields)
            /\ \A i \in 1..Len(fields) :
                  /\ call.ret[i][1] = fields[i].Holding.Name[1].Text
                  /\ call.ret[i][2] =
                        RemoveFirst(RemoveFirst(fields[i].Holding.About,
                                        "http://ci.nii.ac.jp/library/"),
                                    "#entity")
                  /\ call.ret[i][2] = NameFieldID(fields[i].Holding)
                  /\ call.ret[i][3] = fields[i].Holding.SeeAlso.Resource

----------------------------------------------------------------------------
(* Properties of Search, under SpecSearch *)

\* The mapping with appid set to key, read as a value (nil as empty).
WithKey(v, key) ==
    MakeValues([k \in (IF v.nil THEN {} ELSE DOMAIN v.m) \cup {"appid"} |->
                   IF k = "appid" THEN <<key>> ELSE v.m[k]])

\* C7: a Search whose mapping has no appid value sends the request with the
\* key of CINII_APPID, and with that variable unset or empty returns a
\* configuration error, no result, and issues no request; a Search whose
\* mapping has a key sends that key and does not read the environment.
SearchKeyFromEnvironment ==
    call.op \in {"Search", "SearchDirect"} =>
        IF ValuesGet(call.q, "appid") = ""
        THEN IF call.env = ""
             THEN /\ call.err = "ConfigError"
                  /\ call.feed.nil
                  /\ ~call.sent
                  /\ ~call.panic
             ELSE /\ ~call.panic
                  /\ call.sent
                  /\ call.url = OpenSaerchEndpoint \o "?"
                                  \o Encode(WithKey(call.q, call.env))
        ELSE /\ ~call.envRead
             /\ ~call.panic
             /\ call.sent
             /\ call.url = OpenSaerchEndpoint \o "?" \o Encode(call.q)

\* C9: after a Search or Get call the caller's mapping and the environment
\* are as they were when it was called.
CallLeavesCallerStateAlone ==
    call.op \in {"Search", "SearchDirect", "Get"} =>
        /\ q = call.q
        /\ env = call.env

=============================================================================
